---- MODULE Spec2Model ----
(***************************************************************************)
(* Scoring callbacks of skorch (skorch/callbacks/scoring.py) driven by the *)
(* training loop's lifecycle events, together with the history log they    *)
(* record into.                                                            *)
(*                                                                         *)
(* Scores are floats in the program.  They are modelled as exact fractions *)
(* <<n, d>> in lowest terms with d > 0; <<1, 0>> is +inf, <<-1, 0>> is     *)
(* -inf, <<0, 0>> is nan.  Python's None / True / False for                *)
(* lower_is_better and is_best are the strings "None" / "True" / "False".  *)
(*                                                                         *)
(* Three nets are specified.  SpecB: BatchScoring is the only callback.    *)
(* SpecE: EpochScoring is the only callback, its scoring an arbitrary      *)
(* callable; it neither reads nor writes batch records, and the batches of *)
(* an epoch are left out.  Spec: both callbacks, EpochScoring's scoring    *)
(* being the my_score of its docstring, which averages the batch scores    *)
(* found in the history, on datasets that expose X and y.                  *)
(*                                                                         *)
(* The functions of skorch/utils.py have a specification each, which calls *)
(* the function on arguments drawn from bounded sets: SpecToTensor,        *)
(* SpecMultiIndexing, SpecParamsFor, SpecDuplicateItems.  SpecTrain is the *)
(* learner of examples/word_language_model/train.py with its callbacks.    *)
(***************************************************************************)
EXTENDS Integers, Sequences, FiniteSets, TLC

\* ---- bounds of the model ----
MaxEpochs == 2
MaxBatches == 2
MaxBatchSize == 2
MaxScore == 2

\* ---- values ----
PosInf == <<1, 0>>
NegInf == <<-1, 0>>
Unset == << >>

Tri == {"True", "False", "None"}

RECURSIVE GCD(_, _)
GCD(a, b) == IF b = 0 THEN a ELSE GCD(b, a % b)

Abs(n) == IF n < 0 THEN -n ELSE n

\* a fraction with positive denominator, reduced to lowest terms
Norm(q) == LET g == GCD(Abs(q[1]), q[2]) IN <<q[1] \div g, q[2] \div g>>

FAdd(a, b) == <<a[1] * b[2] + b[1] * a[2], a[2] * b[2]>>

\* the float nan, which compares False with everything
NaN == <<0, 0>>

\* a < b on fractions, the two infinities and nan
Lt(a, b) ==
    IF a = NaN \/ b = NaN THEN FALSE
    ELSE IF a[2] = 0 /\ b[2] = 0 THEN a[1] < b[1]
    ELSE a[1] * b[2] < b[1] * a[2]

Scores == {<<k, 1>> : k \in 1..MaxScore}

\* what a call of the scorer does: return a score or raise
ScorerErrors == {"KeyError", "ValueError"}
Outcomes == [exc : {"none"}, score : Scores] \cup [exc : ScorerErrors, score : {<<0, 1>>}]

\* a dataset either exposes X and y or is a custom dataset without them
DatasetKinds == {"xy", "custom"}

\* ---- names of the history columns ----
BName == "bscore"
EName == "escore"

BestKey(name) ==
    IF name = BName THEN "bscore_best"
    ELSE IF name = "valid_loss" THEN "valid_loss_best"
    ELSE "escore_best"

VARIABLES callbacks, history, bs, es, pc, training, dataset, scorer_status, raised, warned, last,
          net, call

vars == <<callbacks, history, bs, es, pc, training, dataset, scorer_status, raised, warned, last,
          net, call>>

\* ---- History (skorch.history.History) ----
new_epoch(h) == Append(h, [vals |-> << >>, batches |-> << >>])

new_batch(h) == [h EXCEPT ![Len(h)].batches = Append(@, << >>)]

\* a dict d with d[k] = v set
SetItem(d, k, v) == [x \in (DOMAIN d) \cup {k} |-> IF x = k THEN v ELSE d[x]]

record(h, attr, value) == [h EXCEPT ![Len(h)].vals = SetItem(@, attr, value)]

record_batch(h, attr, value) ==
    [h EXCEPT ![Len(h)].batches[Len(h[Len(h)].batches)] = SetItem(@, attr, value)]

\* history[-1, 'batches', :, keys]: the batch records of the last epoch
\* that hold every requested key
HistoryBatches(h, keys) ==
    SelectSeq(h[Len(h)].batches, LAMBDA b : keys \subseteq DOMAIN b)

\* the query raises KeyError when no batch record of the epoch holds the keys
HistoryKeyError(h, keys) == HistoryBatches(h, keys) = << >>

\* ---- ScoringBase ----
initialize(lower_is_better) == IF lower_is_better = "True" THEN PosInf ELSE NegInf

\* variant: a score equal to the best counts as best
_is_best_score_or_equal(lower_is_better, best_score_, current_score) ==
    IF lower_is_better = "None" THEN "None"
    ELSE IF lower_is_better = "True"
         THEN (IF ~Lt(best_score_, current_score) THEN "True" ELSE "False")
         ELSE (IF ~Lt(current_score, best_score_) THEN "True" ELSE "False")

_is_best_score(lower_is_better, best_score_, current_score) ==
    IF lower_is_better = "None" THEN "None"
    ELSE IF lower_is_better = "True"
         THEN (IF Lt(current_score, best_score_) THEN "True" ELSE "False")
         ELSE (IF Lt(best_score_, current_score) THEN "True" ELSE "False")

\* ---- BatchScoring ----
\* the result of on_batch_end: the history, what became of the scorer call
\* ("not_called", "ok" or the exception it raised) and the exception that
\* leaves the handler ("none" when it returns)
\* variant: no except clause, the scorer's KeyError leaves the handler
BatchScoring_on_batch_end_no_except(self, h, train, outcome) ==
    IF train # self.on_train
    THEN [history |-> h, status |-> "not_called", raised |-> "none"]
    ELSE IF outcome.exc = "none"
    THEN [history |-> record_batch(h, self.name_, outcome.score),
          status |-> "ok", raised |-> "none"]
    ELSE [history |-> h, status |-> outcome.exc, raised |-> outcome.exc]

\* variant: no test of the phase
BatchScoring_on_batch_end_any_phase(self, h, train, outcome) ==
    IF outcome.exc = "none"
    THEN [history |-> record_batch(h, self.name_, outcome.score),
          status |-> "ok", raised |-> "none"]
    ELSE IF outcome.exc = "KeyError"
    THEN [history |-> h, status |-> outcome.exc, raised |-> "none"]
    ELSE [history |-> h, status |-> outcome.exc, raised |-> outcome.exc]

BatchScoring_on_batch_end(self, h, train, outcome) ==
    IF train # self.on_train
    THEN [history |-> h, status |-> "not_called", raised |-> "none"]
    ELSE IF outcome.exc = "none"
    THEN [history |-> record_batch(h, self.name_, outcome.score),
          status |-> "ok", raised |-> "none"]
    ELSE IF outcome.exc = "KeyError"
    THEN [history |-> h, status |-> outcome.exc, raised |-> "none"]
    ELSE [history |-> h, status |-> outcome.exc, raised |-> outcome.exc]

\* sum of score * weight, and sum of weight, over rows i..Len(rows)
RECURSIVE WeightedSum(_, _, _, _)
WeightedSum(rows, bs_key, name, i) ==
    IF i > Len(rows) THEN <<0, 1>>
    ELSE FAdd(<<rows[i][name][1] * rows[i][bs_key], rows[i][name][2]>>,
              WeightedSum(rows, bs_key, name, i + 1))

RECURSIVE SumOfWeights(_, _, _)
SumOfWeights(rows, bs_key, i) ==
    IF i > Len(rows) THEN 0
    ELSE rows[i][bs_key] + SumOfWeights(rows, bs_key, i + 1)

\* np.average(scores, weights=weights)
average(rows, bs_key, name) ==
    LET s == WeightedSum(rows, bs_key, name, 1)
        w == SumOfWeights(rows, bs_key, 1)
    IN  Norm(<<s[1], s[2] * w>>)

\* variant: the plain mean of the batch scores, weights dropped
get_avg_score_unweighted(self, h) ==
    LET bs_key == IF self.on_train THEN "train_batch_size" ELSE "valid_batch_size"
        rows == HistoryBatches(h, {bs_key, self.name_})
        s == WeightedSum([i \in 1..Len(rows) |-> [rows[i] EXCEPT ![bs_key] = 1]],
                         bs_key, self.name_, 1)
    IN  Norm(<<s[1], s[2] * Len(rows)>>)

get_avg_score(self, h) ==
    LET bs_key == IF self.on_train THEN "train_batch_size" ELSE "valid_batch_size"
    IN  average(HistoryBatches(h, {bs_key, self.name_}), bs_key, self.name_)

get_avg_score_raises(self, h) ==
    LET bs_key == IF self.on_train THEN "train_batch_size" ELSE "valid_batch_size"
    IN  HistoryKeyError(h, {bs_key, self.name_})

\* variant: the best is overwritten whenever tracking yields a flag at all
\* ("if is_best is not None" in place of "if is_best"), and with tracking
\* disabled as well
BatchScoring_on_epoch_end_overwrite(self, h) ==
    IF HistoryKeyError(h, {self.name_})
    THEN [history |-> h, best_score_ |-> self.best_score_, raised |-> "none"]
    ELSE
      LET score_avg == get_avg_score(self, h)
          is_best == _is_best_score(self.lower_is_better, self.best_score_, score_avg)
          h1 == record(h, self.name_, score_avg)
      IN  [history |-> IF is_best # "None"
                       THEN record(h1, BestKey(self.name_), is_best) ELSE h1,
           best_score_ |-> score_avg,
           raised |-> "none"]

\* variant: no early return when the epoch has no batch score; the KeyError
\* of the history lookup leaves the handler
BatchScoring_on_epoch_end_no_guard(self, h) ==
    IF HistoryKeyError(h, {self.name_})
    THEN [history |-> h, best_score_ |-> self.best_score_, raised |-> "KeyError"]
    ELSE
      LET score_avg == get_avg_score(self, h)
          is_best == _is_best_score(self.lower_is_better, self.best_score_, score_avg)
          h1 == record(h, self.name_, score_avg)
      IN  [history |-> IF is_best # "None"
                       THEN record(h1, BestKey(self.name_), is_best) ELSE h1,
           best_score_ |-> IF is_best = "True" THEN score_avg ELSE self.best_score_,
           raised |-> "none"]

\* variant: the results are written into the first epoch record
BatchScoring_on_epoch_end_first_epoch(self, h) ==
    IF HistoryKeyError(h, {self.name_})
    THEN [history |-> h, best_score_ |-> self.best_score_, raised |-> "none"]
    ELSE
      LET score_avg == get_avg_score(self, h)
          is_best == _is_best_score(self.lower_is_better, self.best_score_, score_avg)
          h1 == [h EXCEPT ![1].vals = SetItem(@, self.name_, score_avg)]
      IN  [history |-> IF is_best # "None"
                       THEN [h1 EXCEPT ![1].vals = SetItem(@, BestKey(self.name_), is_best)]
                       ELSE h1,
           best_score_ |-> IF is_best = "True" THEN score_avg ELSE self.best_score_,
           raised |-> "none"]

\* variant: the flag is recorded without the "is not None" test
BatchScoring_on_epoch_end_flag_always(self, h) ==
    IF HistoryKeyError(h, {self.name_})
    THEN [history |-> h, best_score_ |-> self.best_score_, raised |-> "none"]
    ELSE
      LET score_avg == get_avg_score(self, h)
          is_best == _is_best_score(self.lower_is_better, self.best_score_, score_avg)
          h1 == record(h, self.name_, score_avg)
      IN  [history |-> record(h1, BestKey(self.name_),
                              IF is_best = "True" THEN "True" ELSE "False"),
           best_score_ |-> IF is_best = "True" THEN score_avg ELSE self.best_score_,
           raised |-> "none"]

BatchScoring_on_epoch_end(self, h) ==
    IF HistoryKeyError(h, {self.name_})
    THEN [history |-> h, best_score_ |-> self.best_score_, raised |-> "none"]
    ELSE IF get_avg_score_raises(self, h)
    THEN [history |-> h, best_score_ |-> self.best_score_, raised |-> "KeyError"]
    ELSE
      LET score_avg == get_avg_score(self, h)
          is_best == _is_best_score(self.lower_is_better, self.best_score_, score_avg)
          h1 == record(h, self.name_, score_avg)
      IN  [history |-> IF is_best # "None"
                       THEN record(h1, BestKey(self.name_), is_best) ELSE h1,
           best_score_ |-> IF is_best = "True" THEN score_avg ELSE self.best_score_,
           raised |-> "none"]

\* ---- EpochScoring ----
\* data_from_dataset raises AttributeError on a dataset without X and y
data_from_dataset_raises(ds) == ds = "custom"

\* the scoring callable of the class docstring,
\*   losses = net.history[-1, 'batches', :, name]
\*   batch_sizes = net.history[-1, 'batches', :, 'valid_batch_size']
\*   return np.average(losses, weights=batch_sizes)
\* np.average raises TypeError when the two lists differ in length
my_score(h, name) ==
    LET losses == HistoryBatches(h, {name})
        batch_sizes == HistoryBatches(h, {"valid_batch_size"})
    IN  IF losses = << >> \/ batch_sizes = << >>
        THEN [exc |-> "KeyError", score |-> <<0, 1>>]
        ELSE IF Len(losses) # Len(batch_sizes)
        THEN [exc |-> "TypeError", score |-> <<0, 1>>]
        ELSE [exc |-> "none",
              score |-> average([i \in 1..Len(losses) |->
                                   SetItem(losses[i], "valid_batch_size",
                                           batch_sizes[i]["valid_batch_size"])],
                                "valid_batch_size", name)]

\* what self._scoring(net, X_test, y_test) can do in EpochScoring
\* a scorer given as a callable returns any float, inf and nan included
EpochOutcomes(self, h) ==
    IF self.scoring = "my_score" THEN {my_score(h, BName)}
    ELSE Outcomes \cup [exc : {"none"}, score : {PosInf, NegInf, NaN}]

\* variant: the AttributeError of data_from_dataset is not caught
EpochScoring_on_epoch_end_no_except(self, h, dataset_train, dataset_valid, outcome) ==
    LET ds == IF self.on_train THEN dataset_train ELSE dataset_valid
    IN
    IF data_from_dataset_raises(ds)
    THEN [history |-> h, best_score_ |-> self.best_score_, dataset |-> ds,
          status |-> "not_called", raised |-> "AttributeError", warned |-> FALSE]
    ELSE IF outcome.exc # "none"
    THEN [history |-> h, best_score_ |-> self.best_score_, dataset |-> ds,
          status |-> outcome.exc, raised |-> outcome.exc, warned |-> FALSE]
    ELSE
      LET current_score == outcome.score
          h1 == record(h, self.name_, current_score)
          is_best == _is_best_score(self.lower_is_better, self.best_score_, current_score)
      IN  IF is_best = "None"
          THEN [history |-> h1, best_score_ |-> self.best_score_, dataset |-> ds,
                status |-> "ok", raised |-> "none", warned |-> FALSE]
          ELSE [history |-> record(h1, BestKey(self.name_), is_best),
                best_score_ |-> IF is_best = "True" THEN current_score
                                ELSE self.best_score_,
                dataset |-> ds,
                status |-> "ok", raised |-> "none", warned |-> FALSE]

\* variant: the early return tests "not is_best" in place of "is_best is
\* None", so a False flag is never recorded
EpochScoring_on_epoch_end_return_on_false(self, h, dataset_train, dataset_valid, outcome) ==
    LET ds == IF self.on_train THEN dataset_train ELSE dataset_valid
    IN
    IF data_from_dataset_raises(ds)
    THEN [history |-> h, best_score_ |-> self.best_score_, dataset |-> ds,
          status |-> "not_called", raised |-> "none", warned |-> TRUE]
    ELSE IF outcome.exc # "none"
    THEN [history |-> h, best_score_ |-> self.best_score_, dataset |-> ds,
          status |-> outcome.exc, raised |-> outcome.exc, warned |-> FALSE]
    ELSE
      LET current_score == outcome.score
          h1 == record(h, self.name_, current_score)
          is_best == _is_best_score(self.lower_is_better, self.best_score_, current_score)
      IN  IF is_best # "True"
          THEN [history |-> h1, best_score_ |-> self.best_score_, dataset |-> ds,
                status |-> "ok", raised |-> "none", warned |-> FALSE]
          ELSE [history |-> record(h1, BestKey(self.name_), is_best),
                best_score_ |-> current_score,
                dataset |-> ds,
                status |-> "ok", raised |-> "none", warned |-> FALSE]

EpochScoring_on_epoch_end(self, h, dataset_train, dataset_valid, outcome) ==
    LET ds == IF self.on_train THEN dataset_train ELSE dataset_valid
    IN
    IF data_from_dataset_raises(ds)
    THEN [history |-> h, best_score_ |-> self.best_score_, dataset |-> ds,
          status |-> "not_called", raised |-> "none", warned |-> TRUE]
    ELSE IF outcome.exc # "none"
    THEN [history |-> h, best_score_ |-> self.best_score_, dataset |-> ds,
          status |-> outcome.exc, raised |-> outcome.exc, warned |-> FALSE]
    ELSE
      LET current_score == outcome.score
          h1 == record(h, self.name_, current_score)
          is_best == _is_best_score(self.lower_is_better, self.best_score_, current_score)
      IN  IF is_best = "None"
          THEN [history |-> h1, best_score_ |-> self.best_score_, dataset |-> ds,
                status |-> "ok", raised |-> "none", warned |-> FALSE]
          ELSE [history |-> record(h1, BestKey(self.name_), is_best),
                best_score_ |-> IF is_best = "True" THEN current_score
                                ELSE self.best_score_,
                dataset |-> ds,
                status |-> "ok", raised |-> "none", warned |-> FALSE]

\* ---- the training loop ----
RECURSIVE TotalBatches(_, _)
TotalBatches(h, i) ==
    IF i > Len(h) THEN 0 ELSE Len(h[i].batches) + TotalBatches(h, i + 1)

\* a callback as constructed
Callbacks ==
    [scoring : {"callable"}, lower_is_better : Tri, on_train : BOOLEAN,
     name : {"None"}, name_ : {""}, best_score_ : {Unset}]

\* the name argument, or else the name inferred from scoring
_get_name(self, inferred) == IF self.name # "None" THEN self.name ELSE inferred

\* the part of the state held by the example script's net: its learning
\* rate and the epochs at which its parameters were saved
NoNet == [lr |-> <<0, 1>>, saved |-> << >>]

\* the call of a utility function in progress
NoCall == [fn |-> "none"]


\* a net constructed with callbacks=[...] holding the callbacks in regs
InitWith(regs) ==
    /\ callbacks = regs
    /\ history = << >>
    /\ bs \in Callbacks
    /\ es = [bs EXCEPT !.scoring = IF callbacks = {"bs", "es"} THEN "my_score"
                                   ELSE "callable"]
    /\ pc = "constructed"
    /\ training = FALSE
    /\ dataset = "none"
    /\ scorer_status = "not_called"
    /\ raised = "none"
    /\ warned = FALSE
    /\ last = "construct"
    /\ net = NoNet
    /\ call = NoCall

\* net.initialize(): every callback's initialize()
Initialize ==
    /\ pc = "constructed"
    /\ bs' = IF "bs" \in callbacks
             THEN [bs EXCEPT !.best_score_ = initialize(bs.lower_is_better),
                             !.name_ = _get_name(bs, BName)]
             ELSE bs
    /\ es' = IF "es" \in callbacks
             THEN [es EXCEPT !.best_score_ = initialize(es.lower_is_better),
                             !.name_ = _get_name(es, EName)]
             ELSE es
    /\ pc' = "ready"
    /\ last' = "initialize"
    /\ UNCHANGED <<net, call, callbacks, history, training, dataset, scorer_status, raised, warned>>

\* the loop opens an epoch: history.new_epoch()
EpochBegin ==
    /\ pc = "ready"
    /\ Len(history) < MaxEpochs
    /\ history' = new_epoch(history)
    /\ pc' = "batches"
    /\ last' = "epoch_begin"
    /\ scorer_status' = "not_called"
    /\ raised' = "none"
    /\ warned' = FALSE
    /\ dataset' = "none"
    /\ UNCHANGED <<net, call, callbacks, bs, es, training>>

\* the loop runs a train or validation step on a batch and records its size
BatchBegin ==
    /\ pc = "batches"
    /\ TotalBatches(history, 1) < MaxBatches
    /\ \E train \in BOOLEAN, size \in 1..MaxBatchSize :
          /\ training' = train
          /\ history' = record_batch(new_batch(history),
                 IF train THEN "train_batch_size" ELSE "valid_batch_size", size)
    /\ pc' = IF "bs" \in callbacks THEN "batch_end" ELSE "batches"
    /\ last' = "batch_begin"
    /\ scorer_status' = "not_called"
    /\ raised' = "none"
    /\ warned' = FALSE
    /\ dataset' = "none"
    /\ UNCHANGED <<net, call, callbacks, bs, es>>

BatchScoringOnBatchEnd ==
    /\ pc = "batch_end"
    /\ \E outcome \in Outcomes :
          LET r == BatchScoring_on_batch_end(bs, history, training, outcome)
          IN  /\ history' = r.history
              /\ scorer_status' = r.status
              /\ raised' = r.raised
              /\ pc' = IF r.raised = "none" THEN "batches" ELSE "aborted"
    /\ warned' = FALSE
    /\ last' = "bs_batch_end"
    /\ UNCHANGED <<net, call, callbacks, bs, es, training, dataset>>

BatchScoringOnEpochEnd ==
    /\ pc = "batches"
    /\ "bs" \in callbacks
    /\ LET r == BatchScoring_on_epoch_end(bs, history)
       IN  /\ history' = r.history
           /\ bs' = [bs EXCEPT !.best_score_ = r.best_score_]
           /\ raised' = r.raised
           /\ pc' = IF r.raised # "none" THEN "aborted"
                    ELSE IF "es" \in callbacks THEN "epoch_end"
                    ELSE IF "lr" \in callbacks THEN "lr_annealing"
                    ELSE "ready"
    /\ scorer_status' = "not_called"
    /\ warned' = FALSE
    /\ last' = "bs_epoch_end"
    /\ UNCHANGED <<net, call, callbacks, es, training, dataset>>

\* the epoch end reaches EpochScoring, with datasets of the kinds in Kinds
EpochScoringOnEpochEndWith(Kinds) ==
    /\ pc = "epoch_end" \/ (pc = "batches" /\ "bs" \notin callbacks)
    /\ \E dataset_train \in Kinds, dataset_valid \in Kinds,
          outcome \in EpochOutcomes(es, history) :
          LET r == EpochScoring_on_epoch_end(es, history, dataset_train,
                                             dataset_valid, outcome)
          IN  /\ history' = r.history
              /\ es' = [es EXCEPT !.best_score_ = r.best_score_]
              /\ scorer_status' = r.status
              /\ raised' = r.raised
              /\ warned' = r.warned
              /\ dataset' = r.dataset
              /\ pc' = IF r.raised = "none" THEN "ready" ELSE "aborted"
    /\ last' = "es_epoch_end"
    /\ UNCHANGED <<net, call, callbacks, bs, training>>

EpochScoringOnEpochEnd == EpochScoringOnEpochEndWith({"xy"})

EpochScoringOnEpochEndAnyDataset == EpochScoringOnEpochEndWith(DatasetKinds)

\* both callbacks
Init == InitWith({"bs", "es"})

Next ==
    \/ Initialize
    \/ EpochBegin
    \/ BatchBegin
    \/ BatchScoringOnBatchEnd
    \/ BatchScoringOnEpochEnd
    \/ EpochScoringOnEpochEnd

Spec == Init /\ [][Next]_vars

\* BatchScoring alone
InitB == InitWith({"bs"})

NextB ==
    \/ Initialize
    \/ EpochBegin
    \/ BatchBegin
    \/ BatchScoringOnBatchEnd
    \/ BatchScoringOnEpochEnd

SpecB == InitB /\ [][NextB]_vars

\* EpochScoring alone
InitE == InitWith({"es"})

NextE ==
    \/ Initialize
    \/ EpochBegin
    \/ EpochScoringOnEpochEndAnyDataset

SpecE == InitE /\ [][NextE]_vars

\* ---- shorthands for the properties ----
Handlers == {"bs_batch_end", "bs_epoch_end", "es_epoch_end"}

Cur(h) == h[Len(h)]

Has(d, k) == k \in DOMAIN d

\* new is no worse-to-better move against the direction: the tracker only
\* moves the way lower_is_better says
Monotone(lower_is_better, old, new) ==
    IF lower_is_better = "True" THEN ~Lt(old, new)
    ELSE IF lower_is_better = "False" THEN ~Lt(new, old)
    ELSE new = old

\* C1: after initialize(), over every batch-end and epoch-end event, the
\* best_score_ of BatchScoring and of EpochScoring never increases when
\* lower_is_better is True, never decreases when it is False, and never
\* changes when it is None.
C1_BestScoreMonotone ==
    [][pc # "constructed" =>
         /\ "bs" \in callbacks =>
               Monotone(bs.lower_is_better, bs.best_score_, bs'.best_score_)
         /\ "es" \in callbacks =>
               Monotone(es.lower_is_better, es.best_score_, es'.best_score_)]_vars

\* the tracker of BatchScoring moved in the first epoch and stayed when the
\* second epoch's average was worse
C1_Witness ==
    /\ last = "bs_epoch_end"
    /\ Len(history) = 2
    /\ bs.lower_is_better = "True"
    /\ Has(history[1].vals, BName) /\ Has(history[2].vals, BName)
    /\ Lt(history[1].vals[BName], history[2].vals[BName])
    /\ bs.best_score_ = history[1].vals[BName]

\* what an epoch-end handler of callback cb (before the step) and cb2 (after
\* it) must have done with score s against the running best b
BestRule(lower_is_better, b, s, flag, newbest) ==
    LET better == IF lower_is_better = "True" THEN Lt(s, b) ELSE Lt(b, s)
    IN  IF better THEN flag = "True" /\ newbest = s
        ELSE flag = "False" /\ newbest = b

\* C2: at an epoch end where a score s is recorded and tracking is on, with
\* running best b: lower-is-better and s < b gives flag True and best s,
\* s >= b (equality included) gives flag False and best b; higher-is-better
\* symmetrically with >.
C2_FlagAndBest ==
    [][/\ (last' = "bs_epoch_end" /\ Has(Cur(history').vals, BName)
              /\ bs.lower_is_better # "None") =>
            /\ Has(Cur(history').vals, BestKey(BName))
            /\ BestRule(bs.lower_is_better, bs.best_score_,
                        Cur(history').vals[BName],
                        Cur(history').vals[BestKey(BName)], bs'.best_score_)
       /\ (last' = "es_epoch_end" /\ Has(Cur(history').vals, EName)
              /\ es.lower_is_better # "None") =>
            /\ Has(Cur(history').vals, BestKey(EName))
            /\ BestRule(es.lower_is_better, es.best_score_,
                        Cur(history').vals[EName],
                        Cur(history').vals[BestKey(EName)], es'.best_score_)]_vars

\* the second epoch's score ties the best of EpochScoring: flag False
C2_Witness ==
    /\ last = "es_epoch_end"
    /\ Len(history) = 2
    /\ es.lower_is_better = "True"
    /\ Has(history[1].vals, EName) /\ Has(history[2].vals, EName)
    /\ history[2].vals[EName] = history[1].vals[EName]
    /\ history[1].vals[BestKey(EName)] = "True"
    /\ history[2].vals[BestKey(EName)] = "False"
    /\ es.best_score_ = history[1].vals[EName]

\* some batch record of the current epoch holds a score under name
BatchScoreExists(h, name) ==
    \E i \in 1..Len(Cur(h).batches) : Has(Cur(h).batches[i], name)

\* C3: with lower_is_better = None no epoch record ever holds
\* '<name>_best', for BatchScoring and for EpochScoring, while the score is
\* still recorded under '<name>' by an epoch end that computed one.
C3_NoFlagWhenDisabled ==
    /\ bs.lower_is_better = "None" =>
         /\ \A i \in 1..Len(history) : ~Has(history[i].vals, BestKey(BName))
         /\ (last = "bs_epoch_end" /\ BatchScoreExists(history, BName))
                => Has(Cur(history).vals, BName)
    /\ es.lower_is_better = "None" =>
         /\ \A i \in 1..Len(history) : ~Has(history[i].vals, BestKey(EName))
         /\ (last = "es_epoch_end" /\ scorer_status = "ok")
                => Has(Cur(history).vals, EName)

C3_Witness ==
    /\ last = "es_epoch_end"
    /\ bs.lower_is_better = "None" /\ es.lower_is_better = "None"
    /\ Len(history) = 2
    /\ \A i \in 1..2 : Has(history[i].vals, BName) /\ Has(history[i].vals, EName)

\* sum over the batch records with index in I of score * weight (a fraction)
\* and of weight
RECURSIVE ScoreWeightTotal(_, _, _, _)
ScoreWeightTotal(bat, key, name, I) ==
    IF I = {} THEN <<0, 1>>
    ELSE LET i == CHOOSE x \in I : TRUE
         IN  FAdd(<<bat[i][name][1] * bat[i][key], bat[i][name][2]>>,
                  ScoreWeightTotal(bat, key, name, I \ {i}))

RECURSIVE WeightTotal(_, _, _)
WeightTotal(bat, key, I) ==
    IF I = {} THEN 0
    ELSE LET i == CHOOSE x \in I : TRUE
         IN  bat[i][key] + WeightTotal(bat, key, I \ {i})

\* C4: at an epoch end with batch scores in the epoch, BatchScoring records
\* under '<name>' sum(score_i * weight_i) / sum(weight_i) over the batches
\* that hold a score, weight_i being the batch's 'train_batch_size' when
\* on_train is True and its 'valid_batch_size' otherwise.
C4_WeightedAverage ==
    (last = "bs_epoch_end" /\ BatchScoreExists(history, BName)) =>
        LET bat == Cur(history).batches
            key == IF bs.on_train THEN "train_batch_size" ELSE "valid_batch_size"
            I == {i \in 1..Len(bat) : Has(bat[i], BName)}
        IN  /\ raised = "none"
            /\ \A i \in I : Has(bat[i], key)
            /\ Has(Cur(history).vals, BName)
            /\ LET v == Cur(history).vals[BName]
                   t == ScoreWeightTotal(bat, key, BName, I)
                   w == WeightTotal(bat, key, I)
               IN  v[2] > 0 /\ v[1] * (t[2] * w) = t[1] * v[2]

\* scores 2 and 1 with weights 2 and 1 give 5/3
C4_Witness ==
    /\ last = "bs_epoch_end"
    /\ Len(history) >= 1
    /\ \E i, j \in 1..Len(Cur(history).batches) :
          LET bat == Cur(history).batches
              key == IF bs.on_train THEN "train_batch_size" ELSE "valid_batch_size"
          IN  /\ i # j
              /\ Has(bat[i], BName) /\ Has(bat[j], BName)
              /\ bat[i][BName] = <<2, 1>> /\ bat[i][key] = 2
              /\ bat[j][BName] = <<1, 1>> /\ bat[j][key] = 1
              /\ \A k \in 1..Len(bat) : Has(bat[k], BName) => k \in {i, j}
    /\ Has(Cur(history).vals, BName)
    /\ Cur(history).vals[BName] = <<5, 3>>

\* C5: BatchScoring.on_batch_end writes a score under its name into the
\* current batch record only if the batch's training flag equals on_train;
\* on a mismatch the history and best_score_ are unchanged and the scorer is
\* not invoked.
C5_PhaseGuard ==
    [][last' = "bs_batch_end" =>
         /\ training # bs.on_train =>
               history' = history /\ bs' = bs /\ scorer_status' = "not_called"
         /\ training = bs.on_train => scorer_status' # "not_called"
         /\ history' # history =>
               /\ training = bs.on_train
               /\ \E s \in Scores : history' = record_batch(history, bs.name_, s)]_vars

\* a batch of the other phase went by after a batch that was scored
C5_Witness ==
    /\ last = "bs_batch_end"
    /\ training # bs.on_train
    /\ scorer_status = "not_called"
    /\ Len(Cur(history).batches) = 2
    /\ Has(Cur(history).batches[1], BName)
    /\ ~Has(Cur(history).batches[2], BName)

\* C6: at the end of an epoch in which no batch score was recorded under
\* its name, BatchScoring.on_epoch_end records neither '<name>' nor
\* '<name>_best', leaves best_score_ unchanged and raises nothing.
C6_NoBatchScoresNoOp ==
    [][(last' = "bs_epoch_end" /\ ~BatchScoreExists(history, BName)) =>
         /\ history' = history
         /\ ~Has(Cur(history').vals, BName)
         /\ ~Has(Cur(history').vals, BestKey(BName))
         /\ bs' = bs
         /\ raised' = "none"]_vars

\* the second epoch had batches, none of them scored; the best is still the
\* first epoch's
C6_Witness ==
    /\ last = "bs_epoch_end"
    /\ raised = "none" /\ pc = "ready"
    /\ Len(history) = 2
    /\ Has(history[1].vals, BName)
    /\ Len(history[2].batches) >= 1
    /\ ~BatchScoreExists(history, BName)
    /\ ~Has(history[2].vals, BName)
    /\ bs.lower_is_better = "True"
    /\ bs.best_score_ = history[1].vals[BName]

\* C7 as stated: whatever the scorer raises in BatchScoring.on_batch_end,
\* nothing leaves the handler, no batch score is recorded and the history
\* and best_score_ are unchanged.
C7_AnyFailureIgnored ==
    [][(last' = "bs_batch_end" /\ scorer_status' \in ScorerErrors) =>
         raised' = "none" /\ history' = history /\ bs' = bs]_vars

\* C7 (amended): a KeyError of the scorer in BatchScoring.on_batch_end is
\* caught and ignored: the handler returns, records no batch score and
\* leaves the history and best_score_ unchanged.  Any other exception of
\* the scorer leaves the handler, the history and best_score_ unchanged too.
C7_KeyErrorIgnored ==
    [][last' = "bs_batch_end" =>
         /\ scorer_status' = "KeyError" =>
               /\ raised' = "none" /\ pc' = "batches"
               /\ history' = history /\ bs' = bs
         /\ scorer_status' \in ScorerErrors \ {"KeyError"} =>
               /\ raised' = scorer_status' /\ pc' = "aborted"
               /\ history' = history /\ bs' = bs]_vars

C7_Witness ==
    /\ last = "bs_batch_end"
    /\ training = bs.on_train
    /\ scorer_status = "KeyError"
    /\ raised = "none"
    /\ pc = "batches"
    /\ ~Has(Cur(history).batches[Len(Cur(history).batches)], BName)

\* C8: when EpochScoring cannot take X and y from the selected dataset at
\* epoch end it warns and returns: nothing is raised, the scorer is not
\* called, the history and best_score_ are unchanged and the loop goes on;
\* an epoch end with an extractable dataset whose scorer returns records the
\* score, whatever happened in earlier epochs.
C8_WarnAndSkip ==
    [][last' = "es_epoch_end" =>
         /\ dataset' = "custom" =>
               /\ warned' /\ raised' = "none" /\ pc' = "ready"
               /\ scorer_status' = "not_called"
               /\ history' = history /\ es' = es
         /\ (dataset' = "xy" /\ scorer_status' = "ok") =>
               /\ ~warned' /\ raised' = "none"
               /\ Has(Cur(history').vals, EName)]_vars

\* the first epoch was skipped with a warning, the second one is scored
C8_Witness ==
    /\ last = "es_epoch_end"
    /\ Len(history) = 2
    /\ ~Has(history[1].vals, EName)
    /\ dataset = "xy"
    /\ Has(history[2].vals, EName)
    /\ es.lower_is_better = "True"
    /\ es.best_score_ = history[2].vals[EName]
    /\ history[2].vals[BestKey(EName)] = "True"

SameEntry(d, k1, k2) ==
    /\ Has(d, k1) <=> Has(d, k2)
    /\ Has(d, k1) /\ Has(d, k2) => d[k1] = d[k2]

\* C9: with the same direction and the same per-epoch score values (the
\* batch average for BatchScoring, the epoch score for EpochScoring, or
\* none for both), after every epoch end the two callbacks have written the
\* same '<name>_best' entries into every epoch record and hold the same
\* best_score_.
C9_SameAsBatchLevel ==
    (/\ callbacks = {"bs", "es"}
     /\ last = "es_epoch_end"
     /\ bs.lower_is_better = es.lower_is_better
     /\ \A i \in 1..Len(history) : SameEntry(history[i].vals, BName, EName))
    => /\ \A i \in 1..Len(history) :
             SameEntry(history[i].vals, BestKey(BName), BestKey(EName))
       /\ bs.best_score_ = es.best_score_

\* two epochs with equal scores on both sides, a worse one after a better
\* one
C9_Witness ==
    /\ last = "es_epoch_end"
    /\ Len(history) = 2
    /\ bs.lower_is_better = "True"
    /\ \A i \in 1..2 : Has(history[i].vals, BName) /\ Has(history[i].vals, EName)
                          /\ history[i].vals[BName] = history[i].vals[EName]
    /\ Lt(history[1].vals[BName], history[2].vals[BName])
    /\ history[2].vals[BestKey(BName)] = "False"

\* C10: the batch-end and epoch-end handlers of BatchScoring and
\* EpochScoring keep the number of epoch records and leave every epoch
\* record but the last one as it was.
C10_EarlierEpochsUntouched ==
    [][last' \in Handlers =>
         /\ Len(history') = Len(history)
         /\ \A i \in 1..(Len(history) - 1) : history'[i] = history[i]]_vars

\* both callbacks wrote into the second epoch record while the first held
\* their entries
C10_Witness ==
    /\ last = "es_epoch_end"
    /\ Len(history) = 2
    /\ \A i \in 1..2 : /\ Has(history[i].vals, BName)
                       /\ Has(history[i].vals, EName)
                       /\ BatchScoreExists(<<history[i]>>, BName)
    /\ history[1].vals[BName] # history[2].vals[BName]

\* ======================================================================
\* skorch/utils.py
\* ======================================================================

\* the other variables while a utility function is called: no net is fitted
NoFit ==
    /\ callbacks = {}
    /\ history = << >>
    /\ bs = [scoring |-> "callable", lower_is_better |-> "True", on_train |-> FALSE,
             name |-> "None", name_ |-> "", best_score_ |-> Unset]
    /\ es = bs
    /\ pc = "constructed"
    /\ training = FALSE
    /\ dataset = "none"
    /\ scorer_status = "not_called"
    /\ raised = "none"
    /\ warned = FALSE
    /\ last = "construct"
    /\ net = NoNet

NoFitUnchanged ==
    UNCHANGED <<callbacks, history, bs, es, pc, training, dataset, scorer_status,
                raised, warned, last, net>>

\* ---- to_tensor ----
\* A value is a record: kind is its Python type, shape and data are those
\* of an array, a tensor or a scalar, cuda tells where a tensor lives, keys
\* and items are the keys and the values of a container.
MaxLen == 2

Value(kind, shape, data, cuda, keys, items) ==
    [kind |-> kind, shape |-> shape, data |-> data, cuda |-> cuda,
     keys |-> keys, items |-> items]

Leaf(kind, shape, data, cuda) == Value(kind, shape, data, cuda, << >>, << >>)

Container(kind, keys, items) == Value(kind, << >>, << >>, FALSE, keys, items)

\* a raised TypeError
TypeErrorValue == Leaf("TypeError", << >>, << >>, FALSE)

TensorLeaves ==
    {Leaf("scalar", << >>, <<1>>, FALSE), Leaf("scalar", << >>, <<2>>, FALSE),
     Leaf("ndarray", <<2>>, <<1, 2>>, FALSE),
     Leaf("tensor", <<2>>, <<1, 2>>, FALSE), Leaf("tensor", <<2>>, <<1, 2>>, TRUE),
     Leaf("Variable", <<2>>, <<1, 2>>, FALSE),
     Leaf("PackedSequence", <<2>>, <<1, 2>>, FALSE),
     Leaf("range", <<2>>, <<0, 1>>, FALSE),
     Leaf("str", <<2>>, <<1, 2>>, FALSE),
     Leaf("object", << >>, << >>, FALSE)}

DictKeys == <<"a", "b", "c", "d">>

SeqsUpTo(S, n) == UNION {[1..k -> S] : k \in 0..n}

\* lists, tuples and dicts of the values in S
ContainersOf(S) ==
    {Container(kind, << >>, items) : kind \in {"list", "tuple"}, items \in SeqsUpTo(S, MaxLen)}
    \cup {Container("dict", SubSeq(DictKeys, 1, Len(items)), items) :
             items \in SeqsUpTo(S, MaxLen)}

FlatContainers == ContainersOf(TensorLeaves)

\* a container in a container, alone or next to a scalar
NestedContainers ==
    {Container(kind, << >>, <<c>>) : kind \in {"list", "tuple"}, c \in FlatContainers}
    \cup {Container("dict", <<"a">>, <<c>>) : c \in FlatContainers}
    \cup {Container("list", << >>, <<Leaf("scalar", << >>, <<1>>, FALSE), c>>) :
             c \in FlatContainers}
    \cup {Container("dict", <<"a", "b">>, <<c, Leaf("ndarray", <<2>>, <<1, 2>>, FALSE)>>) :
             c \in FlatContainers}

TensorInputs == TensorLeaves \cup FlatContainers \cup NestedContainers

is_torch_data_type(x) == x.kind \in {"tensor", "Variable"}

\* variant: whatever is not an array is wrapped like a scalar, a tensor too
to_tensor_leaf_wrap(X, use_cuda) ==
    LET X1 == IF X.kind = "ndarray" THEN [X EXCEPT !.kind = "tensor"]
              ELSE IF X.kind = "range" THEN [X EXCEPT !.kind = "tensor"]
              ELSE IF X.kind \in {"scalar", "tensor"}
              THEN [X EXCEPT !.kind = "tensor", !.shape = <<1>> \o X.shape]
              ELSE X
    IN  IF X.kind = "str" \/ ~is_torch_data_type(X1) THEN TypeErrorValue
        ELSE IF use_cuda THEN [X1 EXCEPT !.cuda = TRUE]
        ELSE X1

\* to_tensor on what is neither a Variable, a PackedSequence nor a
\* container: torch.from_numpy of an array, of np.array(X) for another
\* Sequence (a TypeError for a string), of np.array([X]) for a scalar
to_tensor_leaf(X, use_cuda) ==
    LET X1 == IF X.kind = "ndarray" THEN [X EXCEPT !.kind = "tensor"]
              ELSE IF X.kind = "range" THEN [X EXCEPT !.kind = "tensor"]
              ELSE IF X.kind = "scalar"
              THEN [X EXCEPT !.kind = "tensor", !.shape = <<1>>]
              ELSE X
    IN  IF X.kind = "str" \/ ~is_torch_data_type(X1) THEN TypeErrorValue
        ELSE IF use_cuda THEN [X1 EXCEPT !.cuda = TRUE]
        ELSE X1

RECURSIVE to_tensor(_, _)
to_tensor(X, use_cuda) ==
    IF X.kind \in {"Variable", "PackedSequence"} THEN X
    ELSE IF X.kind \in {"dict", "list", "tuple"}
    THEN LET items == [i \in 1..Len(X.items) |-> to_tensor(X.items[i], use_cuda)]
         IN  IF \E i \in 1..Len(items) : items[i].kind = "TypeError"
             THEN TypeErrorValue
             ELSE Container(IF X.kind = "dict" THEN "dict" ELSE "list", X.keys, items)
    ELSE to_tensor_leaf(X, use_cuda)

NoValue == Leaf("none", << >>, << >>, FALSE)

InitToTensor ==
    /\ NoFit
    /\ call \in [fn : {"to_tensor"}, X : TensorInputs, use_cuda : BOOLEAN,
                 step : {0}, once : {NoValue}, twice : {NoValue}]

\* Y = to_tensor(X, use_cuda)
ToTensor ==
    /\ call.fn = "to_tensor" /\ call.step = 0
    /\ call' = [call EXCEPT !.step = 1, !.once = to_tensor(call.X, call.use_cuda)]
    /\ NoFitUnchanged

\* to_tensor(Y, use_cuda), when the first call returned
ToTensorAgain ==
    /\ call.fn = "to_tensor" /\ call.step = 1
    /\ call.once.kind # "TypeError"
    /\ call' = [call EXCEPT !.step = 2, !.twice = to_tensor(call.once, call.use_cuda)]
    /\ NoFitUnchanged

NextToTensor == ToTensor \/ ToTensorAgain

SpecToTensor == InitToTensor /\ [][NextToTensor]_vars

\* C11: to_tensor is idempotent on scalars, lists, dicts and their
\* nestings: converting the result of a conversion gives that result again.
C11_ToTensorIdempotent ==
    (call.fn = "to_tensor" /\ call.step = 2) => call.twice = call.once

\* a dict holding a tuple of a scalar and an array was converted twice
C11_Witness ==
    /\ call.fn = "to_tensor" /\ call.step = 2
    /\ call.X.kind = "dict"
    /\ Len(call.X.items) = 1
    /\ call.X.items[1].kind = "tuple"
    /\ Len(call.X.items[1].items) = 2
    /\ call.X.items[1].items[1].kind = "scalar"
    /\ call.X.items[1].items[2].kind = "ndarray"
    /\ call.once # call.X
    /\ call.twice.items[1].kind = "list"
    /\ call.twice.items[1].items[1].shape = <<1>>

\* ---- multi_indexing ----
\* An index is a record: an int k (data = <<k>>), a slice start:stop:step
\* with <<k>> for a bound k and None for a bound left out, or a numpy array
\* with a dtype; index_of turns an array into a list of ints or, for a
\* mask, a tuple of one list.
None == << >>

SliceBounds == {None} \cup {<<k>> : k \in -(MaxLen + 1)..(MaxLen + 1)}

SliceSteps == {None, <<2>>, <<-1>>}

Index(kind, dtype, start, stop, step, data) ==
    [kind |-> kind, dtype |-> dtype, start |-> start, stop |-> stop, step |-> step,
     data |-> data]

IntIndex(k) == Index("int", "", None, None, None, <<k>>)

SliceIndex(start, stop, step) == Index("slice", "", start, stop, step, << >>)

ArrayIndex(dtype, data) == Index("ndarray", dtype, None, None, None, data)

Raise(error) == Leaf(error, << >>, << >>, FALSE)

IsError(v) == v.kind \in {"IndexError", "TypeError"}

\* the dtypes of an index array; int is numpy's default integer, int64
Dtypes == {"bool", "int64", "int32", "float64"}

Indices ==
    {IntIndex(k) : k \in -(MaxLen + 1)..MaxLen}
    \cup {SliceIndex(a, b, c) : a \in SliceBounds, b \in SliceBounds,
                                c \in SliceSteps}
    \cup {ArrayIndex(t, d) : t \in Dtypes, d \in SeqsUpTo({0, 1}, MaxLen)}

Scalar(k) == Leaf("scalar", << >>, <<k>>, FALSE)

Array(kind, data) == Leaf(kind, <<Len(data)>>, data, FALSE)

\* the lists and the arrays of n numbers
SequencesOfLen(n) ==
    {Container("list", << >>, [j \in 1..n |-> Scalar(d[j])]) : d \in [1..n -> {1, 2}]}
    \cup {Array("ndarray", d) : d \in [1..n -> {1, 2}]}

MappingKeys == {<<"a">>, <<"a", "b">>}

\* mappings of sequences of equal length
Mappings ==
    UNION {{Container("dict", keys, items) : items \in [DOMAIN keys -> SequencesOfLen(n)]} :
              keys \in MappingKeys, n \in 0..MaxLen}

IndexedData ==
    Mappings
    \cup UNION {SequencesOfLen(n) : n \in 0..MaxLen}
    \cup {Array(kind, d) : kind \in {"tensor", "ndframe"}, d \in {<<1>>, <<1, 2>>}}
    \cup {Container(kind, << >>, <<Array("ndarray", <<1, 2>>), Array("tensor", <<2, 1>>)>>) :
             kind \in {"list", "tuple"}}

\* variant: an array of any dtype is used as a list of ints
index_of_any_dtype(i) ==
    IF i.kind # "ndarray" THEN i
    ELSE IF i.dtype = "bool"
    THEN Index("tuple", "", None, None, None,
               SelectSeq([j \in 1..Len(i.data) |-> IF i.data[j] = 1 THEN j - 1 ELSE -1],
                         LAMBDA p : p >= 0))
    ELSE Index("list", "", None, None, None, i.data)

\* the index after the first statement of multi_indexing: the nonzero
\* positions of a mask, the list of an int array, IndexError for another array
index_of(i) ==
    IF i.kind # "ndarray" THEN i
    ELSE IF i.dtype = "bool"
    THEN Index("tuple", "", None, None, None,
               SelectSeq([j \in 1..Len(i.data) |-> IF i.data[j] = 1 THEN j - 1 ELSE -1],
                         LAMBDA p : p >= 0))
    ELSE IF i.dtype = "int64"
    THEN Index("list", "", None, None, None, i.data)
    ELSE Index("IndexError", "", None, None, None, << >>)

\* the positions, from 0, that a slice selects in a sequence of n items
SliceIndices(n, i) ==
    LET step == IF i.step = None THEN 1 ELSE i.step[1]
        lower == IF step < 0 THEN -1 ELSE 0
        upper == IF step < 0 THEN n - 1 ELSE n
        Adjust(b) == IF b < 0
                     THEN (IF b + n < 0 THEN lower ELSE b + n)
                     ELSE (IF b >= n THEN upper ELSE b)
        start == IF i.start = None THEN (IF step < 0 THEN upper ELSE lower)
                 ELSE Adjust(i.start[1])
        stop == IF i.stop = None THEN (IF step < 0 THEN lower ELSE upper)
                ELSE Adjust(i.stop[1])
        len == IF step < 0
               THEN (IF stop < start THEN ((start - stop - 1) \div (-step)) + 1 ELSE 0)
               ELSE (IF start < stop THEN ((stop - start - 1) \div step) + 1 ELSE 0)
    IN  [j \in 1..len |-> start + (j - 1) * step]

Items(v) == IF v.kind \in {"list", "tuple"} THEN v.items ELSE v.data

Pick(v, positions) ==
    IF v.kind \in {"list", "tuple"}
    THEN [v EXCEPT !.items = [j \in 1..Len(positions) |-> v.items[positions[j] + 1]]]
    ELSE [v EXCEPT !.data = [j \in 1..Len(positions) |-> v.data[positions[j] + 1]],
                   !.shape = <<Len(positions)>>]

\* v[i]
GetItem(v, i) ==
    LET n == Len(Items(v))
        InRange(k) == -n <= k /\ k < n
        Pos(k) == IF k < 0 THEN k + n ELSE k
    IN  IF v.kind \in {"scalar", "dict"} THEN Raise("TypeError")
        ELSE IF i.kind = "int"
        THEN (IF ~InRange(i.data[1]) THEN Raise("IndexError")
              ELSE IF v.kind \in {"list", "tuple"} THEN v.items[Pos(i.data[1]) + 1]
              ELSE Scalar(v.data[Pos(i.data[1]) + 1]))
        ELSE IF i.kind = "slice" THEN Pick(v, SliceIndices(n, i))
        ELSE IF v.kind \in {"list", "tuple"} THEN Raise("TypeError")
        ELSE IF \E j \in 1..Len(i.data) : ~InRange(i.data[j]) THEN Raise("IndexError")
        ELSE Pick(v, [j \in 1..Len(i.data) |-> Pos(i.data[j])])

\* the first error of a sequence of results, or none
FirstError(results) ==
    IF \E j \in 1..Len(results) : IsError(results[j])
    THEN results[CHOOSE j \in 1..Len(results) :
                    /\ IsError(results[j])
                    /\ \A l \in 1..(j - 1) : ~IsError(results[l])]
    ELSE NoValue

\* sklearn's safe_indexing(X, indices): the rows of an array, the items of a list
safe_indexing(X, i) ==
    IF X.kind \in {"ndarray", "tensor", "ndframe"} THEN GetItem(X, i)
    ELSE IF i.kind = "tuple" /\ X.kind \in {"list", "tuple"} THEN Raise("TypeError")
    ELSE LET results == [j \in 1..Len(i.data) |-> GetItem(X, IntIndex(i.data[j]))]
         IN  IF FirstError(results) # NoValue THEN FirstError(results)
             ELSE Container("list", << >>, results)

\* variant: only the first value of the mapping is indexed
multi_indexing_dict_first(data, i) ==
    Container("dict", data.keys,
              [j \in 1..Len(data.items) |->
                  IF j = 1 THEN GetItem(data.items[j], i) ELSE data.items[j]])

\* {k: v[i] for k, v in data.items()}
multi_indexing_dict(data, i) ==
    LET results == [j \in 1..Len(data.items) |-> GetItem(data.items[j], i)]
    IN  IF FirstError(results) # NoValue THEN FirstError(results)
        ELSE Container("dict", data.keys, results)

RECURSIVE multi_indexing_at(_, _)
multi_indexing_at(data, i) ==
    LET results == [j \in 1..Len(data.items) |-> multi_indexing_at(data.items[j], i)]
        rest == IF data.kind = "ndframe" THEN GetItem(data, i)
                ELSE IF i.kind \in {"int", "slice"} THEN GetItem(data, i)
                ELSE safe_indexing(data, i)
    IN  IF data.kind = "dict" THEN multi_indexing_dict(data, i)
        ELSE IF data.kind \in {"list", "tuple"}
        THEN (IF FirstError(results) = NoValue THEN Container("list", << >>, results)
              ELSE IF FirstError(results).kind = "TypeError" THEN rest
              ELSE FirstError(results))
        ELSE rest

\* what multi_indexing(data, i) returns or raises, and data after the call
multi_indexing(data, i) ==
    [ret |-> IF index_of(i).kind = "IndexError" THEN Raise("IndexError")
             ELSE multi_indexing_at(data, index_of(i)),
     data |-> data]

InitMultiIndexing ==
    /\ NoFit
    /\ call \in [fn : {"multi_indexing"}, data : IndexedData, i : Indices,
                 step : {0}, ret : {NoValue}]

MultiIndexing(D, I) ==
    /\ call.fn = "multi_indexing" /\ call.step = 0
    /\ call.data \in D /\ call.i.kind \in I
    /\ call' = [call EXCEPT !.step = 1,
                            !.ret = multi_indexing(call.data, call.i).ret,
                            !.data = multi_indexing(call.data, call.i).data]
    /\ NoFitUnchanged

\* multi_indexing(data, i) for an int or a slice
MultiIndexingByIntOrSlice == MultiIndexing(IndexedData, {"int", "slice"})

\* multi_indexing(data, i) for an index array
MultiIndexingByArray == MultiIndexing(IndexedData, {"ndarray"})

NextMultiIndexing == MultiIndexingByIntOrSlice \/ MultiIndexingByArray

SpecMultiIndexing == InitMultiIndexing /\ [][NextMultiIndexing]_vars

\* the call of multi_indexing with an index array that is neither of an
\* integer nor of the boolean type
UnsupportedIndexArray ==
    /\ call.fn = "multi_indexing"
    /\ call.i.kind = "ndarray"
    /\ call.i.dtype \notin {"bool", "int64", "int32"}

\* C12 as stated: for any data, an index array whose dtype is neither
\* integer nor boolean makes multi_indexing fail with a type error.
C12_RaisesTypeError ==
    [][UnsupportedIndexArray /\ call.step = 0 => call'.ret.kind = "TypeError"]_vars

\* C12: for any data, an index array whose dtype is neither integer nor
\* boolean makes multi_indexing fail with an IndexError; nothing is
\* returned and the data is left as it was.
C12_RaisesIndexError ==
    [][UnsupportedIndexArray /\ call.step = 0
           => call'.ret = Raise("IndexError") /\ call'.data = call.data]_vars

\* a mapping was indexed by an array of floats
C12_Witness ==
    /\ UnsupportedIndexArray
    /\ call.step = 1
    /\ call.data.kind = "dict"
    /\ Len(call.i.data) = 1
    /\ call.ret.kind = "IndexError"

\* C13: for a mapping of sequences of equal length and a slice i,
\* multi_indexing returns a mapping with the same keys whose values are
\* the values sliced by i, and the mapping passed in is not modified.
C13_MappingSliced ==
    [][(/\ call.fn = "multi_indexing" /\ call.step = 0
        /\ call.data \in Mappings /\ call.i.kind = "slice")
       => /\ call'.ret.kind = "dict"
          /\ call'.ret.keys = call.data.keys
          /\ Len(call'.ret.items) = Len(call.data.keys)
          /\ \A k \in 1..Len(call.data.keys) :
                LET v == call.data.items[k]
                    r == call'.ret.items[k]
                    n == Len(Items(v))
                    at == SliceIndices(n, call.i)
                IN  /\ r.kind = v.kind
                    /\ Len(Items(r)) = Len(at)
                    /\ \A j \in 1..Len(at) : Items(r)[j] = Items(v)[at[j] + 1]
                    /\ (/\ call.i.step = None
                        /\ call.i.start \in {<<p>> : p \in 0..n}
                        /\ call.i.stop \in {<<p>> : p \in 0..n})
                          => Items(r) = SubSeq(Items(v), call.i.start[1] + 1, call.i.stop[1])
          /\ call'.data = call.data]_vars

\* a mapping of a list and an array was sliced by [1:MaxLen]
C13_Witness ==
    /\ call.fn = "multi_indexing" /\ call.step = 1
    /\ call.i.kind = "slice" /\ call.i.start = <<1>> /\ call.i.stop = <<MaxLen>>
    /\ call.i.step = None
    /\ call.data.kind = "dict" /\ call.data.keys = <<"a", "b">>
    /\ call.data.items[1].kind = "list" /\ Len(call.data.items[1].items) = MaxLen
    /\ call.data.items[2].kind = "ndarray"
    /\ call.ret.kind = "dict"
    /\ Len(call.ret.items[1].items) = MaxLen - 1
    /\ call.ret.items[2].shape = <<MaxLen - 1>>

\* ---- params_for ----
\* A string is the sequence of its characters, a dict a function from its
\* keys.
MaxKwargs == 2

Str_e == <<"e">>
Str_d == <<"d">>
Str_a == <<"a">>
Str_b == <<"b">>
Dunder == <<"_", "_">>

Prefixes ==
    {Str_e, Str_d, << >>, Str_e \o Dunder, Str_e \o <<"_">>, Str_e \o Str_e, <<"_">>,
     Str_e \o Dunder \o Str_d}

Keys ==
    {Str_e \o Dunder \o Str_a, Str_e \o Dunder \o Str_b, Str_d \o Dunder \o Str_a,
     Str_e \o <<"_">> \o Str_a, Str_e \o Str_e \o Dunder \o Str_a,
     Str_e \o Dunder \o <<"_">> \o Str_a, Dunder \o Str_a, Str_e \o Dunder, Str_a,
     Str_e \o Dunder \o Str_d \o Dunder \o Str_a}

ParamValues == {3, 5}

EmptyDict == [key \in {} |-> 0]

Kwargs ==
    UNION {[keys -> ParamValues] : keys \in {K \in SUBSET Keys : Cardinality(K) <= MaxKwargs}}

endswith(str, suffix) ==
    /\ Len(str) >= Len(suffix)
    /\ SubSeq(str, Len(str) - Len(suffix) + 1, Len(str)) = suffix

startswith(str, prefix) ==
    /\ Len(str) >= Len(prefix)
    /\ SubSeq(str, 1, Len(prefix)) = prefix

\* variant: the prefix is used as given, no '__' is appended
params_for_as_given(prefix, kwargs) ==
    LET keys == {key \in DOMAIN kwargs : startswith(key, prefix)}
    IN  [rest \in {SubSeq(key, Len(prefix) + 1, Len(key)) : key \in keys} |->
            kwargs[CHOOSE key \in keys : SubSeq(key, Len(prefix) + 1, Len(key)) = rest]]

params_for(prefix, kwargs) ==
    LET prefix_ == IF ~endswith(prefix, Dunder) THEN prefix \o Dunder ELSE prefix
        keys == {key \in DOMAIN kwargs : startswith(key, prefix_)}
    IN  [rest \in {SubSeq(key, Len(prefix_) + 1, Len(key)) : key \in keys} |->
            kwargs[CHOOSE key \in keys : SubSeq(key, Len(prefix_) + 1, Len(key)) = rest]]

InitParamsFor ==
    /\ NoFit
    /\ call \in [fn : {"params_for"}, prefix : Prefixes, kwargs : Kwargs,
                 step : {0}, ret : {EmptyDict}]

ParamsFor ==
    /\ call.fn = "params_for" /\ call.step = 0
    /\ call' = [call EXCEPT !.step = 1, !.ret = params_for(call.prefix, call.kwargs)]
    /\ NoFitUnchanged

NextParamsFor == ParamsFor

SpecParamsFor == InitParamsFor /\ [][NextParamsFor]_vars

\* the prefix with '__' behind it, unless it ends with '__' already
FullPrefix(prefix) ==
    IF Len(prefix) >= 2 /\ prefix[Len(prefix)] = "_" /\ prefix[Len(prefix) - 1] = "_"
    THEN prefix
    ELSE prefix \o <<"_", "_">>

\* C14: params_for(prefix, kwargs) returns exactly the entries of kwargs
\* whose key is the prefix, '__' (unless the prefix ends with it) and a
\* remainder, keyed by the remainder with the value unchanged; an entry
\* with any other key is left out.
C14_ParamsFor ==
    (call.fn = "params_for" /\ call.step = 1) =>
        LET full == FullPrefix(call.prefix)
            Rests == UNION {{SubSeq(key, n + 1, Len(key)) : n \in 0..Len(key)} :
                               key \in DOMAIN call.kwargs}
        IN  /\ DOMAIN call.ret = {rest \in Rests : full \o rest \in DOMAIN call.kwargs}
            /\ \A rest \in DOMAIN call.ret : call.ret[rest] = call.kwargs[full \o rest]
            /\ \A key \in DOMAIN call.kwargs :
                  (\A rest \in DOMAIN call.ret : key # full \o rest)
                     => \/ Len(key) < Len(full)
                        \/ \E n \in 1..Len(full) : key[n] # full[n]

\* params_for('e', {'e__a': 3, 'd__a': 5}) = {'a': 3}
C14_Witness ==
    /\ call.fn = "params_for" /\ call.step = 1
    /\ call.prefix = <<"e">>
    /\ DOMAIN call.kwargs = {<<"e", "_", "_", "a">>, <<"d", "_", "_", "a">>}
    /\ call.kwargs[<<"e", "_", "_", "a">>] = 3
    /\ call.kwargs[<<"d", "_", "_", "a">>] = 5
    /\ DOMAIN call.ret = {<<"a">>}
    /\ call.ret[<<"a">>] = 3

\* ---- flatten, duplicate_items ----
\* The items are the numbers 1..MaxItem; the keys of a dict are values
\* here, numbers or tuples of numbers, and every dict value is the number 1.
MaxItem == 3

Items_ == {Scalar(k) : k \in 1..MaxItem}

\* the sequences over S of at most n items, no item twice
KeySeqs(S, n) == {q \in SeqsUpTo(S, n) : \A j, l \in DOMAIN q : j # l => q[j] # q[l]}

Dict(keys) == Container("dict", keys, [j \in DOMAIN keys |-> Scalar(1)])

\* lists and tuples of items, dicts with items or one tuple of items as keys
FlatCollections ==
    {Container(kind, << >>, items) : kind \in {"list", "tuple"},
                                      items \in SeqsUpTo(Items_, MaxLen)}
    \cup {Dict(keys) : keys \in KeySeqs(Items_, MaxLen)}
    \cup {Dict(<<Container("tuple", << >>, items)>>) : items \in [1..2 -> Items_]}

NestedCollections ==
    {Container("list", << >>, <<c>>) : c \in FlatCollections}
    \cup {Container("list", << >>, <<x, c>>) : x \in Items_, c \in FlatCollections}

Collections ==
    {<<a>> : a \in FlatCollections \cup NestedCollections}
    \cup {<<a, b>> : a \in FlatCollections \cup NestedCollections,
                     b \in {c \in FlatCollections : c.kind = "list"}}

\* what iterating over arr yields: the keys of a dict, the items of a list
Iter(arr) == IF arr.kind = "dict" THEN arr.keys ELSE arr.items

RECURSIVE Concat(_)
Concat(seqs) == IF seqs = << >> THEN << >> ELSE Head(seqs) \o Concat(Tail(seqs))

\* variant: only lists and dicts are flattened, a tuple is an item
RECURSIVE flatten_no_tuple(_)
flatten_no_tuple(arr) ==
    Concat([j \in DOMAIN Iter(arr) |->
               IF Iter(arr)[j].kind \in {"list", "dict"}
               THEN flatten_no_tuple(Iter(arr)[j])
               ELSE <<Iter(arr)[j]>>])

RECURSIVE flatten(_)
flatten(arr) ==
    Concat([j \in DOMAIN Iter(arr) |->
               IF Iter(arr)[j].kind \in {"tuple", "list", "dict"}
               THEN flatten(Iter(arr)[j])
               ELSE <<Iter(arr)[j]>>])

\* the loop of duplicate_items over the items left, with seen and duplicates
RECURSIVE duplicate_items_loop(_, _, _)
duplicate_items_loop(items, seen, duplicates) ==
    IF items = << >> THEN duplicates
    ELSE IF Head(items) \in seen
    THEN duplicate_items_loop(Tail(items), seen, duplicates \cup {Head(items)})
    ELSE duplicate_items_loop(Tail(items), seen \cup {Head(items)}, duplicates)

duplicate_items(collections) ==
    duplicate_items_loop(flatten(Container("tuple", << >>, collections)), {}, {})

InitDuplicateItems ==
    /\ NoFit
    /\ call \in [fn : {"duplicate_items"}, collections : Collections,
                 step : {0}, ret : {{}}]

DuplicateItems ==
    /\ call.fn = "duplicate_items" /\ call.step = 0
    /\ call' = [call EXCEPT !.step = 1, !.ret = duplicate_items(call.collections)]
    /\ NoFitUnchanged

NextDuplicateItems == DuplicateItems

SpecDuplicateItems == InitDuplicateItems /\ [][NextDuplicateItems]_vars

\* how often the item x occurs in a collection: in its items for a list
\* or a tuple, among its keys for a dict
RECURSIVE Occurrences(_, _)
Occurrences(x, c) ==
    LET RECURSIVE Sum(_)
        Sum(q) == IF q = << >> THEN 0 ELSE Occurrences(x, Head(q)) + Sum(Tail(q))
    IN  IF c.kind \in {"list", "tuple"} THEN Sum(c.items)
        ELSE IF c.kind = "dict" THEN Sum(c.keys)
        ELSE IF c = x THEN 1 ELSE 0

OccurrencesInAll(x, collections) ==
    LET RECURSIVE Sum(_)
        Sum(q) == IF q = << >> THEN 0 ELSE Occurrences(x, Head(q)) + Sum(Tail(q))
    IN  Sum(collections)

\* C15: duplicate_items(*collections) returns exactly the set of the items
\* that occur more than once in all the collections together, nested lists
\* and tuples flattened and a dict counted by its keys; it is the empty set
\* when every item occurs once.
C15_DuplicateItems ==
    (call.fn = "duplicate_items" /\ call.step = 1) =>
        /\ call.ret = {x \in Items_ : OccurrencesInAll(x, call.collections) >= 2}
        /\ (\A x \in Items_ : OccurrencesInAll(x, call.collections) <= 1) => call.ret = {}

\* duplicate_items([1, (2, 1)], [2]) = {1, 2}
C15_Witness ==
    /\ call.fn = "duplicate_items" /\ call.step = 1
    /\ Len(call.collections) = 2
    /\ call.collections[1] =
          Container("list", << >>,
                    <<Scalar(1), Container("tuple", << >>, <<Scalar(2), Scalar(1)>>)>>)
    /\ call.collections[2] = Container("list", << >>, <<Scalar(2)>>)
    /\ call.ret = {Scalar(1), Scalar(2)}

\* ---- the running best against the recorded scores ----
\* the epoch-level scores recorded under name by the end of epoch n
Recorded(h, name, n) == {h[e].vals[name] : e \in {e \in 1..n : Has(h[e].vals, name)}}

Better(lower_is_better, s, b) == IF lower_is_better = "True" THEN Lt(s, b) ELSE Lt(b, s)

\* b is one of the scores S and none of them is better
BestOf(lower_is_better, b, S) ==
    b \in S /\ \A s \in S : ~Better(lower_is_better, s, b)

\* C16 as stated, for the callback cb with the name under which it records
BestOfRecorded(cb, name) ==
    /\ IF Recorded(history, name, Len(history)) = {}
       THEN cb.best_score_ = initialize(cb.lower_is_better)
       ELSE BestOf(cb.lower_is_better, cb.best_score_,
                   Recorded(history, name, Len(history)))
    /\ \A e \in 1..Len(history) :
          Has(history[e].vals, name) =>
             /\ Has(history[e].vals, BestKey(name))
             /\ history[e].vals[BestKey(name)] = "True"
                   <=> \A s \in Recorded(history, name, e - 1) :
                          Better(cb.lower_is_better, history[e].vals[name], s)

\* C16 with the sentinel as a score to beat and nan left out
BestOfRecordedAndSentinel(cb, name) ==
    /\ cb.best_score_ # NaN
    /\ BestOf(cb.lower_is_better, cb.best_score_,
              (Recorded(history, name, Len(history)) \ {NaN})
                 \cup {initialize(cb.lower_is_better)})
    /\ \A e \in 1..Len(history) :
          Has(history[e].vals, name) =>
             /\ Has(history[e].vals, BestKey(name))
             /\ history[e].vals[BestKey(name)] = "True"
                   <=> \A s \in (Recorded(history, name, e - 1) \ {NaN})
                                   \cup {initialize(cb.lower_is_better)} :
                          Better(cb.lower_is_better, history[e].vals[name], s)

Tracking(cb, reg) ==
    reg \in callbacks /\ pc # "constructed" /\ cb.lower_is_better # "None"

\* C16 as stated: with tracking on, best_score_ is at all times after
\* initialize() the minimum (lower is better) or the maximum of the
\* epoch-level scores the callback has recorded, or the sentinel if there
\* are none; the flag of an epoch is True exactly when its score is
\* strictly better than the score of every earlier epoch.
C16_BestOfRecorded ==
    /\ Tracking(bs, "bs") => BestOfRecorded(bs, bs.name_)
    /\ Tracking(es, "es") => BestOfRecorded(es, es.name_)

\* C16: with tracking on, best_score_ is at all times after initialize()
\* the minimum (lower is better) or the maximum of the sentinel and the
\* recorded epoch-level scores other than nan; the flag of an epoch is True
\* exactly when its score is strictly better than the sentinel and than
\* every earlier epoch's score other than nan.
C16_BestOfRecordedAndSentinel ==
    /\ Tracking(bs, "bs") => BestOfRecordedAndSentinel(bs, bs.name_)
    /\ Tracking(es, "es") => BestOfRecordedAndSentinel(es, es.name_)

\* a first epoch with a loss of +inf is not the best, the second epoch is
C16_Witness ==
    /\ last = "es_epoch_end"
    /\ Len(history) = 2
    /\ es.lower_is_better = "True"
    /\ Has(history[1].vals, EName) /\ Has(history[2].vals, EName)
    /\ history[1].vals[EName] = PosInf
    /\ history[1].vals[BestKey(EName)] = "False"
    /\ history[2].vals[BestKey(EName)] = "True"
    /\ es.best_score_ = history[2].vals[EName]

\* ======================================================================
\* examples/word_language_model/train.py
\* ======================================================================
\* The learner's own callback that scores the validation loss is a
\* BatchScoring named valid_loss, lower is better, on validation batches;
\* it runs before the callbacks of the script.

\* params of the grid search: 'lr': [10, 20, 30]
LearningRates == {<<10, 1>>, <<20, 1>>, <<30, 1>>}

\* history[-1]['valid_loss_best'] raises KeyError
NoValidLossBest(h) == ~Has(Cur(h).vals, "valid_loss_best")

\* variant: the learning rate is divided at every epoch end
LRAnnealing_on_epoch_end_always(net_, h) ==
    IF NoValidLossBest(h) THEN [net |-> net_, raised |-> "KeyError"]
    ELSE [net |-> [net_ EXCEPT !.lr = Norm(<<net_.lr[1], net_.lr[2] * 4>>)],
          raised |-> "none"]

LRAnnealing_on_epoch_end(net_, h) ==
    IF NoValidLossBest(h) THEN [net |-> net_, raised |-> "KeyError"]
    ELSE IF Cur(h).vals["valid_loss_best"] # "True"
    THEN [net |-> [net_ EXCEPT !.lr = Norm(<<net_.lr[1], net_.lr[2] * 4>>)],
          raised |-> "none"]
    ELSE [net |-> net_, raised |-> "none"]

\* net.save_params(args.save) is recorded as the epoch of the checkpoint
Checkpointing_on_epoch_end(net_, h) ==
    IF NoValidLossBest(h) THEN [net |-> net_, raised |-> "KeyError"]
    ELSE IF Cur(h).vals["valid_loss_best"] = "True"
    THEN [net |-> [net_ EXCEPT !.saved = Append(net_.saved, Len(h))], raised |-> "none"]
    ELSE [net |-> net_, raised |-> "none"]

\* Learner(callbacks=[LRAnnealing(), Checkpointing(), ExamplePrinter()]),
\* fitted by the grid search with one of its learning rates
InitTrain ==
    /\ callbacks = {"bs", "lr", "ckpt", "printer"}
    /\ history = << >>
    /\ bs = [scoring |-> "callable", lower_is_better |-> "True", on_train |-> FALSE,
             name |-> "valid_loss", name_ |-> "", best_score_ |-> Unset]
    /\ es = [bs EXCEPT !.name = "None"]
    /\ pc = "constructed"
    /\ training = FALSE
    /\ dataset = "none"
    /\ scorer_status = "not_called"
    /\ raised = "none"
    /\ warned = FALSE
    /\ last = "construct"
    /\ net \in [lr : LearningRates, saved : {<< >>}]
    /\ call = NoCall

LRAnnealingOnEpochEnd ==
    /\ pc = "lr_annealing"
    /\ LET r == LRAnnealing_on_epoch_end(net, history)
       IN  /\ net' = r.net
           /\ raised' = r.raised
           /\ pc' = IF r.raised = "none" THEN "checkpointing" ELSE "aborted"
    /\ last' = "lr_annealing"
    /\ UNCHANGED <<call, callbacks, history, bs, es, training, dataset, scorer_status, warned>>

CheckpointingOnEpochEnd ==
    /\ pc = "checkpointing"
    /\ LET r == Checkpointing_on_epoch_end(net, history)
       IN  /\ net' = r.net
           /\ raised' = r.raised
           /\ pc' = IF r.raised = "none" THEN "example_printer" ELSE "aborted"
    /\ last' = "checkpointing"
    /\ UNCHANGED <<call, callbacks, history, bs, es, training, dataset, scorer_status, warned>>

\* ExamplePrinter samples and prints a sentence
ExamplePrinterOnEpochEnd ==
    /\ pc = "example_printer"
    /\ pc' = "ready"
    /\ last' = "example_printer"
    /\ UNCHANGED <<net, call, callbacks, history, bs, es, training, dataset, scorer_status,
                   raised, warned>>

NextTrain ==
    \/ Initialize
    \/ EpochBegin
    \/ BatchBegin
    \/ BatchScoringOnBatchEnd
    \/ BatchScoringOnEpochEnd
    \/ LRAnnealingOnEpochEnd
    \/ CheckpointingOnEpochEnd
    \/ ExamplePrinterOnEpochEnd

SpecTrain == InitTrain /\ [][NextTrain]_vars

Quarter(lr) == Norm(<<lr[1], lr[2] * 4>>)

\* the validation loss of epoch e is no worse than that of any epoch up to e
BestSoFar(h, e) ==
    /\ Has(h[e].vals, "valid_loss")
    /\ \A d \in 1..e : Has(h[d].vals, "valid_loss")
                          => ~Lt(h[d].vals["valid_loss"], h[e].vals["valid_loss"])

\* C17: at an epoch end of the example script where 'valid_loss_best' is
\* recorded, a flag False has LRAnnealing divide the learning rate by 4 and
\* no checkpoint saved, a flag True has Checkpointing save the parameters
\* and the learning rate unchanged; no other step touches either, so the
\* learning rate never increases and a checkpoint is written only at an
\* epoch whose validation loss is the best so far.
C17_AnnealOrCheckpoint ==
    [][/\ (last' = "lr_annealing" /\ ~NoValidLossBest(history)) =>
             IF Cur(history).vals["valid_loss_best"] = "False"
             THEN net'.lr = Quarter(net.lr) /\ net'.saved = net.saved
             ELSE net' = net
       /\ (last' = "checkpointing" /\ ~NoValidLossBest(history)) =>
             IF Cur(history).vals["valid_loss_best"] = "True"
             THEN net'.saved = Append(net.saved, Len(history)) /\ net'.lr = net.lr
             ELSE net' = net
       /\ last' \notin {"lr_annealing", "checkpointing"} => net' = net
       /\ ~Lt(net.lr, net'.lr)
       /\ \A j \in DOMAIN net'.saved :
             /\ \A l \in DOMAIN net'.saved : l # j => net'.saved[l] # net'.saved[j]
             /\ history'[net'.saved[j]].vals["valid_loss_best"] = "True"
             /\ BestSoFar(history', net'.saved[j])]_vars

\* the first epoch was the best and saved, the second was not: its end
\* left the checkpoint alone and a quarter of the learning rate
C17_Witness ==
    /\ last = "example_printer"
    /\ Len(history) = 2
    /\ history[1].vals["valid_loss_best"] = "True"
    /\ history[2].vals["valid_loss_best"] = "False"
    /\ net.saved = <<1>>
    /\ net.lr = <<5, 1>>

====
